---- MODULE Spec2Model ----
(***************************************************************************)
(* A model of src/app.py: the classical pothole detector detect_potholes   *)
(* and the Flask handler index() that wraps it.                            *)
(*                                                                         *)
(* Pixels are not modelled one by one.  A picture is described by its      *)
(* size, by its scene (the outer contours cv2.findContours returns for     *)
(* the road region of the 640x480 working frame, in region coordinates)    *)
(* and by the marks drawn on it since it was allocated.  Two buffers       *)
(* with equal size, scene and marks are pixel-identical.  Contours are     *)
(* sequences of integer points; their area and bounding box are computed   *)
(* as cv2.contourArea and cv2.boundingRect compute them.  Areas are kept   *)
(* doubled (area2 = 2 * area), since a polygon on integer points has an    *)
(* area that is a multiple of 1/2.                                         *)
(***************************************************************************)
EXTENDS Integers, Sequences, FiniteSets, TLC

VARIABLES pc, caller, arg, loc, heap, ret, err, log,
          req, resp, outfile, ledger, nreq, runs

vars == <<pc, caller, arg, loc, heap, ret, err, log,
          req, resp, outfile, ledger, nreq, runs>>

indexVars == <<req, resp, outfile, ledger, nreq, runs>>

(***************************************************************************)
(* Bounds of the model.                                                    *)
(***************************************************************************)
\* the longest scene (contours in one picture) of a direct call
MaxContours == 2
\* the longest scene of a picture in the concurrent specifications
MaxContoursConc == 1
\* requests index() serves in one run of SpecIndex
MaxRequests == 2

(***************************************************************************)
(* Program constants.                                                      *)
(***************************************************************************)
W0 == 640
H0 == 480
\* int(h * 0.3): the fraction 0.3 as 3 / 10
RoiTopNum == 3
RoiTopDen == 10
MinArea == 200
\* 0.65 * roi_area: the fraction 0.65 as 65 / 100
MaxAreaNum == 65
MaxAreaDen == 100
\* aspect_ratio < 0.2: the bound 0.2 as 1 / 5
MinAspectDen == 5
MaxAspect == 6
Thickness == 2
LabelDy == 5

Procs == {1, 2}

(***************************************************************************)
(* Contours.                                                               *)
(***************************************************************************)
Abs(n) == IF n < 0 THEN -n ELSE n

RECURSIVE Shoelace(_, _)
Shoelace(c, i) ==
    IF i > Len(c) THEN 0
    ELSE LET p == c[i]
             q == c[IF i = Len(c) THEN 1 ELSE i + 1]
         IN  p[1] * q[2] - q[1] * p[2] + Shoelace(c, i + 1)

\* cv2.contourArea(cnt), doubled: Green's formula over the closed polygon,
\* in absolute value (oriented = False); 0 for an empty contour
ContourArea2(c) == Abs(Shoelace(c, 1))

MinOf(S) == CHOOSE m \in S : \A n \in S : m <= n
MaxOf(S) == CHOOSE m \in S : \A n \in S : m >= n

\* a boundingRect whose height subtracts the wrong way round
BoundingRectSwapped(c) ==
    IF Len(c) = 0 THEN [x |-> 0, y |-> 0, w |-> 0, h |-> 0]
    ELSE LET xs == {c[i][1] : i \in 1..Len(c)}
             ys == {c[i][2] : i \in 1..Len(c)}
         IN  [x |-> MinOf(xs), y |-> MinOf(ys),
              w |-> MaxOf(xs) - MinOf(xs) + 1,
              h |-> MinOf(ys) - MaxOf(ys) + 1]

\* cv2.boundingRect(cnt): the upright box of the points, extents inclusive
\* (width = max x - min x + 1); (0, 0, 0, 0) for an empty point set
BoundingRect(c) ==
    IF Len(c) = 0 THEN [x |-> 0, y |-> 0, w |-> 0, h |-> 0]
    ELSE LET xs == {c[i][1] : i \in 1..Len(c)}
             ys == {c[i][2] : i \in 1..Len(c)}
         IN  [x |-> MinOf(xs), y |-> MinOf(ys),
              w |-> MaxOf(xs) - MinOf(xs) + 1,
              h |-> MaxOf(ys) - MinOf(ys) + 1]

\* the outer boundary of a filled a+1 by b+1 block of pixels at (x, y)
Rect(x, y, a, b) == <<<<x, y>>, <<x, y + b>>, <<x + a, y + b>>, <<x + a, y>>>>

\* the pictures' blobs, in coordinates of the 640 x 336 road region
cFloor == Rect(10, 5, 10, 20)
cBelowFloor == <<<<30, 0>>, <<30, 20>>, <<40, 20>>, <<40, 2>>, <<39, 0>>>>
cHalfBelow == <<<<100, 50>>, <<100, 71>>, <<119, 50>>>>
cAboveFloor == <<<<40, 200>>, <<40, 206>>, <<73, 206>>, <<74, 200>>>>
cCeil == Rect(0, 0, 512, 273)
cAboveCeil == <<<<0, 0>>, <<0, 273>>, <<512, 273>>, <<512, 1>>, <<513, 0>>>>
cFull == Rect(0, 0, W0 - 1, H0 - (H0 * RoiTopNum) \div RoiTopDen - 1)
cSliver == <<<<300, 100>>, <<300, 149>>>>
cDot == <<<<600, 5>>>>
cAspLo == Rect(200, 100, 19, 99)
cAspBelow == Rect(200, 100, 18, 99)
cAspHi == Rect(300, 300, 119, 19)
cAspAbove == Rect(300, 300, 120, 19)
cFlat == Rect(0, 330, 400, 1)

ContourPool ==
    {cFloor, cBelowFloor, cHalfBelow, cAboveFloor, cCeil, cAboveCeil, cFull,
     cSliver, cDot, cAspLo, cAspBelow, cAspHi, cAspAbove, cFlat}

ContourPoolConc == {cFloor, cAspHi, cSliver}

\* two blobs are two connected components: their outer contours do not
\* touch; the model keeps the scenes whose boxes are a pixel or more apart
Apart(b, c) ==
    \/ b.x + b.w < c.x \/ c.x + c.w < b.x
    \/ b.y + b.h < c.y \/ c.y + c.h < b.y

\* the scenes of at most n blobs of S, in every order findContours may list them
RECURSIVE ScenesUpTo(_, _)
ScenesUpTo(S, n) ==
    IF n = 0 THEN {<<>>}
    ELSE LET shorter == ScenesUpTo(S, n - 1)
         IN  shorter \cup
             {Append(s, e) : <<s, e>> \in
                 {t \in shorter \X S :
                     \A i \in 1..Len(t[1]) :
                         Apart(BoundingRect(t[1][i]), BoundingRect(t[2]))}}

(***************************************************************************)
(* Pictures and buffers.                                                   *)
(***************************************************************************)
NoScene == <<>>
Unallocated == [alloc |-> FALSE, w |-> 0, h |-> 0, scene |-> NoScene, marks |-> <<>>]
Picture(w, h, scene) ==
    [alloc |-> TRUE, w |-> w, h |-> h, scene |-> scene, marks |-> <<>>]

\* the pictures a caller passes to detect_potholes directly
Images ==
    {Picture(d[1], d[2], s) :
        d \in {<<640, 480>>, <<1024, 768>>}, s \in ScenesUpTo(ContourPool, MaxContours)}
    \cup {Picture(0, 0, NoScene), Picture(0, 480, NoScene), Picture(640, 0, NoScene)}

ImagesConc ==
    {Picture(320, 240, s) : s \in ScenesUpTo(ContourPoolConc, MaxContoursConc)}

IsEmptyImage(im) == im.w = 0 \/ im.h = 0

BufNames == {"input", "img", "annotated"}
BufIds == Procs \X BufNames
NullRef == <<0, "null">>

NoBox == [x |-> 0, y |-> 0, w |-> 0, h |-> 0]
NoLocals ==
    [img |-> NullRef, h |-> 0, w |-> 0, roi_top |-> 0, roi_h |-> 0, roi_w |-> 0,
     roi_area |-> 0, contours |-> <<>>, i |-> 0, pothole_count |-> 0,
     annotated |-> NullRef, area2 |-> 0, box |-> NoBox]
NoResult == [set |-> FALSE, ref |-> NullRef, count |-> 0]

(***************************************************************************)
(* Requests, the report ledger reports.csv and static/output.jpg.          *)
(***************************************************************************)
\* what cv2.imdecode makes of the uploaded bytes
ImagesIndex ==
    {Picture(800, 600, NoScene), Picture(800, 600, <<cFloor>>),
     Picture(1024, 768, <<cAspHi, cSliver, cFloor>>)}

NoRequest ==
    [id |-> 0, method |-> "none", file |-> FALSE, filename |-> "",
     bytes |-> "none", image |-> Unallocated, location |-> "", severity |-> ""]

PostOf(file, filename, bytes, image, location) ==
    [id |-> 0, method |-> "POST", file |-> file, filename |-> filename,
     bytes |-> bytes, image |-> image, location |-> location,
     severity |-> "Medium"]

\* the requests a browser sends: bytes names what the upload holds, image
\* the picture it decodes to
Requests ==
    {[NoRequest EXCEPT !.method = "GET"],
     PostOf(FALSE, "", "none", Unallocated, "MG Road"),
     PostOf(TRUE, "", "none", Unallocated, ""),
     PostOf(TRUE, "notes.txt", "garbage", Unallocated, ""),
     PostOf(TRUE, "empty.jpg", "empty", Unallocated, "MG Road")}
    \cup {PostOf(TRUE, "road.jpg", "image", im,
                 IF im.scene = NoScene THEN "" ELSE "MG Road") : im \in ImagesIndex}

NoResponse ==
    [result_image |-> "None", pothole_count |-> -1, error |-> "None",
     reports |-> <<>>, status |-> 0]

\* the history of a request: the request, whether detect_potholes returned
\* on it and with what, and whether it wrote static/output.jpg
NoRun ==
    [request |-> NoRequest, detected |-> FALSE, image |-> Unallocated,
     count |-> 0, wrote |-> FALSE]

\* static/output.jpg: the picture it holds and the request that wrote it
NoFile == [exists |-> FALSE, image |-> Unallocated, run |-> 0]

Header == <<"timestamp", "location", "severity", "potholes", "image_path">>

\* a data row of reports.csv; run names the request that wrote it (it
\* stands for the row's timestamp), 0 for a row of an earlier process
Row(run, location, severity, potholes, image_path) ==
    [run |-> run, location |-> location, severity |-> severity,
     potholes |-> potholes, image_path |-> image_path]

\* init_reports_file(): a missing reports.csv is created with its header, an
\* existing one (with the rows of earlier processes) is left as it is
NewLedger == [header |-> Header, rows |-> <<>>]
OldLedger ==
    [header |-> Header,
     rows |-> <<Row(0, "Not specified", "High", 4, "static/output.jpg")>>]

(***************************************************************************)
(* detect_potholes(image_bgr), one action per group of statements.  The    *)
(* caller's picture is the buffer <<p, "input">>.                          *)
(***************************************************************************)
Init ==
    /\ pc = [p \in Procs |-> "idle"]
    /\ caller = [p \in Procs |-> "none"]
    /\ arg = [p \in Procs |-> Unallocated]
    /\ loc = [p \in Procs |-> NoLocals]
    /\ heap = [b \in BufIds |-> Unallocated]
    /\ ret = [p \in Procs |-> NoResult]
    /\ err = [p \in Procs |-> "none"]
    /\ log = [p \in Procs |-> <<>>]
    /\ req = [p \in Procs |-> NoRequest]
    /\ resp = [p \in Procs |-> NoResponse]
    /\ outfile = NoFile
    /\ ledger = NewLedger
    /\ nreq = 0
    /\ runs = <<>>

\* a direct call detect_potholes(im) by a caller that owns im
CallDirect(p, images) ==
    /\ pc[p] = "idle"
    /\ \E im \in images :
        /\ arg' = [arg EXCEPT ![p] = im]
        /\ heap' = [heap EXCEPT ![<<p, "input">>] = im]
    /\ caller' = [caller EXCEPT ![p] = "direct"]
    /\ pc' = [pc EXCEPT ![p] = "resize"]
    /\ UNCHANGED <<loc, ret, err, log, indexVars>>

\* an exception leaves detect_potholes; under index() Flask answers 500
Raised(p, e) ==
    /\ err' = [err EXCEPT ![p] = e]
    /\ pc' = [pc EXCEPT ![p] = IF caller[p] = "index" THEN "failed500" ELSE "raised"]

\* a resize that takes any picture
ResizeAcceptsAll(im) == FALSE
\* cv2.resize asserts !ssize.empty(): a picture without pixels is refused
ResizeRefuses(im) == IsEmptyImage(im)

\* cv2.resize returns a newly allocated array
ResizeDst(p) == <<p, "img">>

\* annotated = img, with no copy
CopyDstAlias(p) == <<p, "img">>
\* one drawing buffer kept at module level for every call
CopyDstShared(p) == <<1, "annotated">>
\* the array img.copy() allocates
CopyDst(p) == <<p, "annotated">>

\* int(h * 0.3): the product truncated (480 * 0.3 is 144.0 exactly in double
\* precision)
RoiTop(h) == (h * RoiTopNum) \div RoiTopDen

\* what cv2.cvtColor, GaussianBlur, threshold (Otsu, inverted), the closing,
\* the opening and findContours (RETR_EXTERNAL) make of the region: the
\* picture's scene, in the order findContours lists it
FindContours(buf) == buf.scene

\* area <= min_area in place of area < min_area
AreaRejectedStrict(area2, roi_area) ==
    \/ area2 <= 2 * MinArea
    \/ area2 * MaxAreaDen > 2 * MaxAreaNum * roi_area
\* the area filter without its ceiling
AreaRejectedNoCeiling(area2, roi_area) == area2 < 2 * MinArea
\* area < min_area or area > max_area, with max_area = 0.65 * roi_area (the
\* product 0.65 * 215040 is 139776.0 exactly in double precision)
AreaRejected(area2, roi_area) ==
    \/ area2 < 2 * MinArea
    \/ area2 * MaxAreaDen > 2 * MaxAreaNum * roi_area

\* aspect_ratio < 0.2 or aspect_ratio > 6.0, aspect_ratio = w_box / float(h_box);
\* the quotient of two integers below 1024 is never within rounding of 0.2
\* or of 6.0 without being equal to it, so the exact comparison is the
\* floating-point one
AspectRejected(w_box, h_box) ==
    \/ w_box * MinAspectDen < h_box
    \/ w_box > MaxAspect * h_box

\* a box drawn at its y in the region
YFullNoOffset(h, y) == y
\* y_full = int(h * 0.3) + y
YFull(h, y) == RoiTop(h) + y

\* cv2.rectangle and cv2.putText for one blob
Mark(x, y_full, w_box, h_box) ==
    [rect |-> <<x, y_full, x + w_box, y_full + h_box>>, thickness |-> Thickness,
     text |-> "Pothole", org |-> <<x, y_full - LabelDy>>]

\* pothole_count = 0
InitialCount == 0

\* a count that is not advanced
NextCountStuck(n) == n
\* pothole_count += 1
NextCount(n) == n + 1

Resize(p) ==
    /\ pc[p] = "resize"
    /\ IF ResizeRefuses(heap[<<p, "input">>])
       THEN /\ Raised(p, "cv2.error")
            /\ UNCHANGED <<loc, heap>>
       ELSE /\ heap' = [heap EXCEPT ![ResizeDst(p)] =
                            [heap[<<p, "input">>] EXCEPT !.w = W0, !.h = H0]]
            /\ loc' = [loc EXCEPT ![p].img = ResizeDst(p)]
            /\ pc' = [pc EXCEPT ![p] = "roi"]
            /\ err' = err
    /\ UNCHANGED <<caller, arg, ret, log, indexVars>>

Roi(p) ==
    /\ pc[p] = "roi"
    /\ LET img == heap[loc[p].img]
           top == RoiTop(img.h)
       IN  loc' = [loc EXCEPT ![p].h = img.h, ![p].w = img.w,
                              ![p].roi_top = top,
                              ![p].roi_h = img.h - top,
                              ![p].roi_w = img.w,
                              ![p].roi_area = (img.h - top) * img.w]
    /\ pc' = [pc EXCEPT ![p] = "extract"]
    /\ UNCHANGED <<caller, arg, heap, ret, err, log, indexVars>>

Extract(p) ==
    /\ pc[p] = "extract"
    /\ loc' = [loc EXCEPT ![p].contours = FindContours(heap[loc[p].img])]
    /\ pc' = [pc EXCEPT ![p] = "init"]
    /\ UNCHANGED <<caller, arg, heap, ret, err, log, indexVars>>

InitLoop(p) ==
    /\ pc[p] = "init"
    /\ heap' = [heap EXCEPT ![CopyDst(p)] = heap[loc[p].img]]
    /\ loc' = [loc EXCEPT ![p].pothole_count = InitialCount,
                          ![p].annotated = CopyDst(p),
                          ![p].i = 1]
    /\ pc' = [pc EXCEPT ![p] = "loop"]
    /\ UNCHANGED <<caller, arg, ret, err, log, indexVars>>

\* for cnt in contours
Loop(p) ==
    /\ pc[p] = "loop"
    /\ pc' = [pc EXCEPT ![p] =
                 IF loc[p].i > Len(loc[p].contours) THEN "return" ELSE "area"]
    /\ UNCHANGED <<caller, arg, loc, heap, ret, err, log, indexVars>>

\* continue: on to the next contour
Continue(p, why) ==
    /\ log' = [log EXCEPT ![p] = Append(@, why)]
    /\ pc' = [pc EXCEPT ![p] = "loop"]

AreaStep(p) ==
    /\ pc[p] = "area"
    /\ LET area2 == ContourArea2(loc[p].contours[loc[p].i])
       IN  IF AreaRejected(area2, loc[p].roi_area)
           THEN /\ Continue(p, "area")
                /\ loc' = [loc EXCEPT ![p].area2 = area2, ![p].i = @ + 1]
           ELSE /\ loc' = [loc EXCEPT ![p].area2 = area2]
                /\ pc' = [pc EXCEPT ![p] = "rect"]
                /\ log' = log
    /\ UNCHANGED <<caller, arg, heap, ret, err, indexVars>>

RectStep(p) ==
    /\ pc[p] = "rect"
    /\ loc' = [loc EXCEPT ![p].box = BoundingRect(loc[p].contours[loc[p].i])]
    /\ pc' = [pc EXCEPT ![p] = "aspect"]
    /\ UNCHANGED <<caller, arg, heap, ret, err, log, indexVars>>

AspectStep(p) ==
    /\ pc[p] = "aspect"
    /\ IF loc[p].box.h = 0
       THEN /\ Raised(p, "ZeroDivisionError")
            /\ UNCHANGED <<loc, log>>
       ELSE IF AspectRejected(loc[p].box.w, loc[p].box.h)
       THEN /\ Continue(p, "aspect")
            /\ loc' = [loc EXCEPT ![p].i = @ + 1]
            /\ err' = err
       ELSE /\ pc' = [pc EXCEPT ![p] = "draw"]
            /\ UNCHANGED <<loc, log, err>>
    /\ UNCHANGED <<caller, arg, heap, ret, indexVars>>

Draw(p) ==
    /\ pc[p] = "draw"
    /\ LET b == loc[p].box
           y_full == YFull(loc[p].h, b.y)
       IN  heap' = [heap EXCEPT ![loc[p].annotated].marks =
                        Append(@, Mark(b.x, y_full, b.w, b.h))]
    /\ loc' = [loc EXCEPT ![p].pothole_count = NextCount(@), ![p].i = @ + 1]
    /\ Continue(p, "accepted")
    /\ UNCHANGED <<caller, arg, ret, err, indexVars>>

\* return annotated, pothole_count
Return(p) ==
    /\ pc[p] = "return"
    /\ ret' = [ret EXCEPT ![p] =
                  [set |-> TRUE, ref |-> loc[p].annotated,
                   count |-> loc[p].pothole_count]]
    /\ pc' = [pc EXCEPT ![p] = IF caller[p] = "index" THEN "imwrite" ELSE "done"]
    /\ runs' = IF caller[p] = "index"
               THEN [runs EXCEPT ![req[p].id].detected = TRUE,
                                 ![req[p].id].image = heap[loc[p].annotated],
                                 ![req[p].id].count = loc[p].pothole_count]
               ELSE runs
    /\ UNCHANGED <<caller, arg, loc, heap, err, log, req, resp, outfile, ledger, nreq>>

(***************************************************************************)
(* index(): the handler of GET / and POST /, one action per group of       *)
(* statements; detect_potholes runs between Decode and Imwrite.            *)
(***************************************************************************)
\* a worker thread takes a request
Receive(p) ==
    /\ pc[p] = "idle"
    /\ nreq < MaxRequests
    /\ \E r \in Requests :
        /\ req' = [req EXCEPT ![p] = [r EXCEPT !.id = nreq + 1]]
        /\ runs' = Append(runs, [NoRun EXCEPT !.request = r])
    /\ nreq' = nreq + 1
    /\ caller' = [caller EXCEPT ![p] = "index"]
    /\ resp' = [resp EXCEPT ![p] = NoResponse]
    /\ pc' = [pc EXCEPT ![p] = "begin"]
    /\ UNCHANGED <<arg, loc, heap, ret, err, log, outfile, ledger>>

\* lines 133-143
Begin(p) ==
    /\ pc[p] = "begin"
    /\ IF req[p].method # "POST"
       THEN /\ pc' = [pc EXCEPT ![p] = "render"]
            /\ resp' = resp
       ELSE IF ~req[p].file \/ req[p].filename = ""
       THEN /\ resp' = [resp EXCEPT ![p].error = "Please select an image first."]
            /\ pc' = [pc EXCEPT ![p] = "render"]
       ELSE /\ pc' = [pc EXCEPT ![p] = "decode"]
            /\ resp' = resp
    /\ UNCHANGED <<caller, arg, loc, heap, ret, err, log,
                   req, outfile, ledger, nreq, runs>>

\* cv2.imdecode: None for bytes that are no picture; for no bytes at all
\* None or cv2.error (!buf.empty()), by the version of OpenCV
DecodeOutcomes(bytes) ==
    IF bytes = "image" THEN {"image"}
    ELSE IF bytes = "empty" THEN {"None", "cv2.error"}
    ELSE {"None"}

\* lines 146-153, up to the call of detect_potholes
Decode(p) ==
    /\ pc[p] = "decode"
    /\ \E o \in DecodeOutcomes(req[p].bytes) :
        IF o = "image"
        THEN /\ arg' = [arg EXCEPT ![p] = req[p].image]
             /\ heap' = [heap EXCEPT ![<<p, "input">>] = req[p].image]
             /\ pc' = [pc EXCEPT ![p] = "resize"]
             /\ UNCHANGED <<resp, err>>
        ELSE IF o = "None"
        THEN /\ resp' = [resp EXCEPT ![p].error = "Invalid image file."]
             /\ pc' = [pc EXCEPT ![p] = "render"]
             /\ UNCHANGED <<arg, heap, err>>
        ELSE /\ Raised(p, o)
             /\ UNCHANGED <<arg, heap, resp>>
    /\ UNCHANGED <<caller, loc, ret, log, req, outfile, ledger, nreq, runs>>

\* lines 156-160: cv2.imwrite overwrites static/output.jpg
Imwrite(p) ==
    /\ pc[p] = "imwrite"
    /\ outfile' = [exists |-> TRUE, image |-> heap[ret[p].ref], run |-> req[p].id]
    /\ runs' = [runs EXCEPT ![req[p].id].wrote = TRUE]
    /\ resp' = [resp EXCEPT ![p].result_image = "static/output.jpg",
                            ![p].pothole_count = ret[p].count]
    /\ pc' = [pc EXCEPT ![p] = "append"]
    /\ UNCHANGED <<caller, arg, loc, heap, ret, err, log, req, ledger, nreq>>

\* location if location else "Not specified"
LocationOf(location) == IF location = "" THEN "Not specified" ELSE location

\* reports.csv opened with mode "w"
RowsAfterOverwrite(rows, row) == <<row>>
\* lines 163-173: reports.csv opened with mode "a", one row written
RowsAfter(rows, row) == Append(rows, row)

AppendRow(p) ==
    /\ pc[p] = "append"
    /\ ledger' = [ledger EXCEPT !.rows =
                     RowsAfter(@, Row(req[p].id, LocationOf(req[p].location),
                                      req[p].severity, resp[p].pothole_count,
                                      resp[p].result_image))]
    /\ pc' = [pc EXCEPT ![p] = "render"]
    /\ UNCHANGED <<caller, arg, loc, heap, ret, err, log,
                   req, resp, outfile, nreq, runs>>

\* load_reports(): the data rows of reports.csv
LoadReports(l) == l.rows

\* lines 176-184
Render(p) ==
    /\ pc[p] = "render"
    /\ resp' = [resp EXCEPT ![p].reports = LoadReports(ledger), ![p].status = 200]
    /\ pc' = [pc EXCEPT ![p] = "replied"]
    /\ UNCHANGED <<caller, arg, loc, heap, ret, err, log,
                   req, outfile, ledger, nreq, runs>>

\* the response is sent (200, or 500 after an exception); the worker's
\* locals and buffers are dropped and it can take the next request
Release(p) ==
    /\ pc[p] \in {"replied", "failed500"}
    /\ pc' = [pc EXCEPT ![p] = "idle"]
    /\ caller' = [caller EXCEPT ![p] = "none"]
    /\ arg' = [arg EXCEPT ![p] = Unallocated]
    /\ loc' = [loc EXCEPT ![p] = NoLocals]
    /\ heap' = [b \in BufIds |-> IF b[1] = p THEN Unallocated ELSE heap[b]]
    /\ ret' = [ret EXCEPT ![p] = NoResult]
    /\ err' = [err EXCEPT ![p] = "none"]
    /\ log' = [log EXCEPT ![p] = <<>>]
    /\ req' = [req EXCEPT ![p] = NoRequest]
    /\ resp' = [resp EXCEPT ![p] = NoResponse]
    /\ UNCHANGED <<outfile, ledger, nreq, runs>>

(***************************************************************************)
(* Specifications.                                                         *)
(***************************************************************************)
\* one direct call of detect_potholes
Next ==
    \/ CallDirect(1, Images)
    \/ Resize(1) \/ Roi(1) \/ Extract(1) \/ InitLoop(1) \/ Loop(1)
    \/ AreaStep(1) \/ RectStep(1) \/ AspectStep(1) \/ Draw(1) \/ Return(1)

Spec == Init /\ [][Next]_vars

\* two threads calling detect_potholes, each on a picture of its own
NextConc ==
    \E p \in Procs :
        \/ CallDirect(p, ImagesConc)
        \/ Resize(p) \/ Roi(p) \/ Extract(p) \/ InitLoop(p) \/ Loop(p)
        \/ AreaStep(p) \/ RectStep(p) \/ AspectStep(p) \/ Draw(p) \/ Return(p)

SpecConc == Init /\ [][NextConc]_vars

\* the Flask application: two worker threads serving index()
InitIndex ==
    /\ pc = [p \in Procs |-> "idle"]
    /\ caller = [p \in Procs |-> "none"]
    /\ arg = [p \in Procs |-> Unallocated]
    /\ loc = [p \in Procs |-> NoLocals]
    /\ heap = [b \in BufIds |-> Unallocated]
    /\ ret = [p \in Procs |-> NoResult]
    /\ err = [p \in Procs |-> "none"]
    /\ log = [p \in Procs |-> <<>>]
    /\ req = [p \in Procs |-> NoRequest]
    /\ resp = [p \in Procs |-> NoResponse]
    /\ outfile = NoFile
    /\ ledger \in {NewLedger, OldLedger}
    /\ nreq = 0
    /\ runs = <<>>

NextIndex ==
    \E p \in Procs :
        \/ Receive(p) \/ Begin(p) \/ Decode(p)
        \/ Resize(p) \/ Roi(p) \/ Extract(p) \/ InitLoop(p) \/ Loop(p)
        \/ AreaStep(p) \/ RectStep(p) \/ AspectStep(p) \/ Draw(p) \/ Return(p)
        \/ Imwrite(p) \/ AppendRow(p) \/ Render(p) \/ Release(p)

SpecIndex == InitIndex /\ [][NextIndex]_vars

(***************************************************************************)
(* Properties.                                                             *)
(***************************************************************************)
\* the contours of the picture a call was given, as the classifier meets them
SceneOf(p) == arg[p].scene

\* the places in the scene of the contours the loop accepted so far
RECURSIVE AcceptedFrom(_, _)
AcceptedFrom(lg, i) ==
    IF i > Len(lg) THEN <<>>
    ELSE (IF lg[i] = "accepted" THEN <<i>> ELSE <<>>) \o AcceptedFrom(lg, i + 1)

Accepted(p) == AcceptedFrom(log[p], 1)

\* the marks on the copy a call draws on
MarksOf(p) ==
    IF loc[p].annotated = NullRef THEN <<>> ELSE heap[loc[p].annotated].marks

\* the acceptance rule as the specification words it, on the 640 x 480
\* working frame: the region is 480 - 144 = 336 rows of 640 pixels
StatedAccepts(c) ==
    LET area2 == ContourArea2(c)
        b == BoundingRect(c)
        region_area == 336 * 640
    IN  /\ area2 >= 2 * 200
        /\ 100 * area2 <= 2 * 65 * region_area
        /\ b.h > 0
        /\ 10 * b.w >= 2 * b.h
        /\ b.w <= 6 * b.h

\* C1: every contour the loop has decided was accepted exactly when its
\* area is at least 200, at most 0.65 of the region's area, and its box's
\* width / height lies in [0.2, 6.0], all bounds inclusive; so the blobs of
\* area 199 and 199.5 are rejected, the blob of area 201 is accepted, the
\* blobs above 0.65 of the region are rejected and the 1 x 50 sliver is
\* rejected
C1_AcceptIff ==
    \A i \in 1..Len(log[1]) :
        LET c == SceneOf(1)[i]
        IN  /\ (log[1][i] = "accepted") <=> StatedAccepts(c)
            /\ c \in {cBelowFloor, cHalfBelow, cAboveCeil, cFull, cSliver}
                   => log[1][i] # "accepted"
            /\ c \in {cFloor, cAboveFloor, cCeil, cAspLo, cAspHi}
                   => log[1][i] = "accepted"

C1_Witness ==
    /\ pc[1] = "done"
    /\ SceneOf(1) = <<cAspHi, cFloor>>
    /\ log[1] = <<"accepted", "accepted">>
    /\ ContourArea2(cFloor) = 2 * MinArea

\* the ceiling of 0.3 * H0
CeilTop == (3 * H0 + 9) \div 10

\* C2: the first row of the region and the offset of every drawn box are
\* the same value, the ceiling of 0.3 * H0: a drawn box has the y of its
\* contour's box in the region plus that value, and the same x
C2_Offset ==
    /\ pc[1] \in {"extract", "init", "loop", "area", "rect", "aspect", "draw",
                  "return", "done"}
           => /\ loc[1].roi_top = CeilTop
              /\ loc[1].roi_h = H0 - CeilTop
    /\ Len(MarksOf(1)) <= Len(Accepted(1))
    /\ \A k \in 1..Len(MarksOf(1)) :
           LET b == BoundingRect(SceneOf(1)[Accepted(1)[k]])
               m == MarksOf(1)[k]
           IN  /\ m.rect[2] = b.y + CeilTop
               /\ m.rect[2] = b.y + loc[1].roi_top
               /\ m.rect[1] = b.x

C2_Witness ==
    /\ pc[1] = "done"
    /\ SceneOf(1) = <<cAboveFloor>>
    /\ Len(MarksOf(1)) = 1
    /\ MarksOf(1)[1].rect[2] = 344
    /\ MarksOf(1)[1].rect[1] = 40

\* C3 as stated: a call on a picture without pixels fails with
\* InvalidImageError before any stage has run, and returns nothing
C3_Stated ==
    (IsEmptyImage(arg[1]) /\ pc[1] \notin {"idle", "resize"})
        => /\ err[1] = "InvalidImageError"
           /\ ~ret[1].set
           /\ loc[1] = NoLocals

\* C3: a call on a picture without pixels fails with the cv2.error that
\* cv2.resize raises, the first statement of the pipeline: no later stage
\* has run, no buffer was allocated and nothing is returned
C3_ResizeRaises ==
    (IsEmptyImage(arg[1]) /\ pc[1] \notin {"idle", "resize"})
        => /\ pc[1] = "raised"
           /\ err[1] = "cv2.error"
           /\ ~ret[1].set
           /\ loc[1] = NoLocals
           /\ ~heap[<<1, "img">>].alloc
           /\ ~heap[<<1, "annotated">>].alloc

C3_Witness ==
    /\ pc[1] = "raised"
    /\ arg[1].w = 0
    /\ arg[1].h = 480
    /\ err[1] = "cv2.error"

\* the picture cv2.resize makes of a picture
Resized(im) == [im EXCEPT !.w = 640, !.h = 480]

\* C5: a call that found no contour, or accepted none, returns without an
\* exception, with count 0 and a picture identical to the resized input; a
\* uniform picture (no contour, or the one contour of the whole region)
\* ends that way
C5_NothingFound ==
    /\ (pc[1] = "done" /\ Accepted(1) = <<>>)
           => /\ err[1] = "none"
              /\ ret[1].set
              /\ ret[1].count = 0
              /\ heap[ret[1].ref] = Resized(arg[1])
    /\ (pc[1] \in {"done", "raised"} /\ ~IsEmptyImage(arg[1])
        /\ SceneOf(1) \in {NoScene, <<cFull>>})
           => /\ pc[1] = "done"
              /\ ret[1].count = 0
              /\ heap[ret[1].ref] = Resized(arg[1])

C5_Witness ==
    /\ pc[1] = "done"
    /\ SceneOf(1) = <<cFull>>
    /\ log[1] = <<"area">>
    /\ ret[1].count = 0

\* C7: the division w_box / float(h_box) never has a zero divisor: every
\* box that reaches it is at least one row high, and no call ends in
\* ZeroDivisionError
C7_NoZeroDivision ==
    /\ pc[1] = "aspect" => loc[1].box.h >= 1
    /\ err[1] # "ZeroDivisionError"

C7_Witness ==
    /\ pc[1] = "aspect"
    /\ loc[1].contours[loc[1].i] = cFlat
    /\ loc[1].box.h = 2

\* C8: the count is the number of contours that passed the filters, one
\* rectangle with one label is drawn for each of them and none for the
\* others, in the order the extractor listed them
C8_CountAndOrder ==
    /\ loc[1].pothole_count = Len(Accepted(1))
    /\ Len(MarksOf(1)) = Len(Accepted(1))
    /\ \A k \in 1..Len(MarksOf(1)) :
           LET b == BoundingRect(SceneOf(1)[Accepted(1)[k]])
               m == MarksOf(1)[k]
           IN  /\ m.rect[1] = b.x
               /\ m.rect[3] - m.rect[1] = b.w
               /\ m.rect[4] - m.rect[2] = b.h
               /\ m.text = "Pothole"
               /\ m.org = <<m.rect[1], m.rect[2] - 5>>
    /\ pc[1] = "done"
           => /\ ret[1].count = Len(Accepted(1))
              /\ ret[1].count = Len(heap[ret[1].ref].marks)
              /\ Len(log[1]) = Len(SceneOf(1))

C8_Witness ==
    /\ pc[1] = "done"
    /\ SceneOf(1) = <<cAspHi, cSliver>>
    /\ log[1] = <<"accepted", "aspect">> \/ log[1] = <<"accepted", "area">>
    /\ ret[1].count = 1

\* C9: the caller's picture is never changed, nor is the resized frame the
\* region is cut from: the marks go to a copy of its own
C9_InputUntouched ==
    /\ pc[1] # "idle" => heap[<<1, "input">>] = arg[1]
    /\ loc[1].img # NullRef
           => /\ heap[loc[1].img] = Resized(arg[1])
              /\ loc[1].img # <<1, "input">>
    /\ loc[1].annotated # NullRef
           => loc[1].annotated \notin {loc[1].img, <<1, "input">>}

C9_Witness ==
    /\ pc[1] = "done"
    /\ Len(heap[ret[1].ref].marks) = 2
    /\ heap[<<1, "input">>] = arg[1]
    /\ heap[<<1, "input">>].marks = <<>>

\* detect_potholes run from its first statement to its last with nothing
\* else running: the loop over the contours, then the whole call
RECURSIVE ClassifyAlone(_, _, _, _)
ClassifyAlone(contours, i, roi_area, acc) ==
    IF i > Len(contours) THEN acc
    ELSE LET c == contours[i]
             b == BoundingRect(c)
         IN  IF \/ AreaRejected(ContourArea2(c), roi_area)
                \/ AspectRejected(b.w, b.h)
             THEN ClassifyAlone(contours, i + 1, roi_area, acc)
             ELSE ClassifyAlone(contours, i + 1, roi_area,
                      [marks |-> Append(acc.marks,
                                        Mark(b.x, YFull(H0, b.y), b.w, b.h)),
                       count |-> NextCount(acc.count)])

RunAlone(im) ==
    LET img == [im EXCEPT !.w = W0, !.h = H0]
        r == ClassifyAlone(FindContours(img), 1, (H0 - RoiTop(H0)) * W0,
                           [marks |-> <<>>, count |-> InitialCount])
    IN  [image |-> [img EXCEPT !.marks = r.marks], count |-> r.count]

\* C6: whatever the interleaving of two calls on pictures of their own,
\* each returns the picture and the count it returns when run alone, and no
\* buffer of one call is a buffer of the other
C6_NoInterference ==
    /\ \A p \in Procs :
           pc[p] = "done"
               => [image |-> heap[ret[p].ref], count |-> ret[p].count]
                      = RunAlone(arg[p])
    /\ \A p, q \in Procs :
           p # q =>
               /\ loc[p].img # NullRef => loc[p].img # loc[q].img
               /\ loc[p].annotated # NullRef
                      => loc[p].annotated \notin {loc[q].annotated, loc[q].img}

C6_Witness ==
    /\ pc[1] = "done" /\ pc[2] = "done"
    /\ SceneOf(1) = <<cFloor>>
    /\ SceneOf(2) = <<cAspHi>>
    /\ ret[1].count = 1 /\ ret[2].count = 1
    /\ heap[ret[1].ref] # heap[ret[2].ref]

\* the rows request k wrote
RowsOf(k) == {i \in 1..Len(ledger.rows) : ledger.rows[i].run = k}

\* request k has yet to reach the statement after the append
BeforeAppend(k) ==
    \E p \in Procs : req[p].id = k /\ pc[p] \notin {"render", "replied", "failed500"}

\* a POST with a file, a file name and bytes that decode to a picture
GoodPost(r) ==
    r.method = "POST" /\ r.file /\ r.filename # "" /\ r.bytes = "image"

C4_Rows ==
    /\ \A k \in 1..nreq :
           LET n == Cardinality(RowsOf(k))
               h == runs[k]
           IN  /\ n <= 1
               /\ ~h.detected => (n = 0 /\ ~h.wrote)
               /\ ~GoodPost(h.request) => ~h.detected
               /\ ~BeforeAppend(k)
                      => /\ n = 1 <=> h.detected
                         /\ h.detected <=> GoodPost(h.request)
    /\ (\A p \in Procs : pc[p] = "idle")
           => Cardinality({i \in 1..Len(ledger.rows) : ledger.rows[i].run > 0})
                  = Cardinality({k \in 1..nreq : runs[k].detected})

C4_RowsKept ==
    /\ ledger'.header = ledger.header
    /\ Len(ledger'.rows) \in {Len(ledger.rows), Len(ledger.rows) + 1}
    /\ SubSeq(ledger'.rows, 1, Len(ledger.rows)) = ledger.rows

\* C4: a request appends one row when it is a POST whose upload decodes
\* and whose detection run returns, and otherwise appends no row and does
\* not write static/output.jpg; no step of any request changes or removes a
\* row the ledger holds; with no request in progress the rows added are as
\* many as the detection runs that returned
C4_LedgerAppendOnly == [](C4_Rows) /\ [][C4_RowsKept]_vars

C4_Witness ==
    /\ \A p \in Procs : pc[p] = "idle"
    /\ nreq = 2
    /\ Len(ledger.rows) = 2
    /\ ledger.rows[1].run = 0
    /\ ledger.rows[2].run = 2
    /\ ~runs[1].detected
    /\ runs[1].request.bytes = "garbage"
    /\ runs[2].detected

\* C10: with every request served, static/output.jpg holds the annotated
\* picture of the run whose row is the ledger's last, and that row's count
\* is that run's count
C10_FileMatchesLastRow ==
    ((\A p \in Procs : pc[p] = "idle")
     /\ Len(ledger.rows) > 0
     /\ ledger.rows[Len(ledger.rows)].run > 0)
        => LET last == ledger.rows[Len(ledger.rows)]
           IN  /\ outfile.exists
               /\ outfile.image = runs[last.run].image
               /\ last.potholes = runs[last.run].count

====
